---- MODULE Spec2Model ----
(***************************************************************************)
(* The movie REST API: five GET handlers of the movie controller, the      *)
(* router that dispatches to them, and the Movie collection they read.     *)
(* Strings are sequences of one-character strings, so that parseFloat, the *)
(* release-date pattern, $split/$toInt and the country $regex are computed *)
(* character by character.  Numbers (ratings, thresholds) are counted in   *)
(* tenths: 75 stands for 7.5.                                              *)
(***************************************************************************)
EXTENDS Integers, Sequences, FiniteSets, TLC

VARIABLES
    Movie,      \* the 'movies' collection, in insertion order
    pc,         \* per request: "idle", "awaiting" (suspended on the store), "done"
    req,        \* per request: the HTTP request being served
    local,      \* per request: the handler's locals (rating, countryQuery)
    reads,      \* per request: number of store reads the handler issued
    settled,    \* per request: what the awaited store call settled to
    res         \* per request: the responses sent, in order

vars == <<Movie, pc, req, local, reads, settled, res>>

----------------------------------------------------------------------------
(* Bounds of the model.                                                    *)

\* Longest store among the stores enumerated record by record.
MaxRecords == 2

\* The requests in flight at once.
Requests == {1, 2}

----------------------------------------------------------------------------
(* Values.                                                                 *)

Absent == [t |-> "absent", v |-> 0]      \* field not present / undefined
Null == [t |-> "null", v |-> 0]
NaN == [t |-> "nan", v |-> 0]
Num(n) == [t |-> "num", v |-> n]         \* n in tenths
Str(s) == [t |-> "str", v |-> s]         \* s a sequence of characters

Digits == <<"0", "1", "2", "3", "4", "5", "6", "7", "8", "9">>
UpperCase == <<"A", "B", "C", "D", "E", "F", "G", "H", "I", "J", "K", "L", "M",
               "N", "O", "P", "Q", "R", "S", "T", "U", "V", "W", "X", "Y", "Z">>
LowerCase == <<"a", "b", "c", "d", "e", "f", "g", "h", "i", "j", "k", "l", "m",
               "n", "o", "p", "q", "r", "s", "t", "u", "v", "w", "x", "y", "z">>

IsDigit(c) == \E i \in 1..10 : Digits[i] = c
DigitVal(c) == (CHOOSE i \in 1..10 : Digits[i] = c) - 1
IsAlpha(c) == \E i \in 1..26 : UpperCase[i] = c \/ LowerCase[i] = c
ToLower(c) == IF \E i \in 1..26 : UpperCase[i] = c
              THEN LowerCase[CHOOSE i \in 1..26 : UpperCase[i] = c]
              ELSE c

\* Length of the longest prefix of s made of digits.
RECURSIVE DigitPrefix(_)
DigitPrefix(s) ==
    IF s = <<>> \/ ~IsDigit(Head(s)) THEN 0 ELSE 1 + DigitPrefix(Tail(s))

\* Value of a sequence of digits.
RECURSIVE DigitsValue(_)
DigitsValue(s) ==
    IF s = <<>> THEN 0 ELSE 10 * DigitsValue(SubSeq(s, 1, Len(s) - 1)) + DigitVal(s[Len(s)])

\* parseFloat(req.params.rating): the longest numeric prefix (digits, optionally
\* a point and more digits), NaN when there is none.  Tenths are kept.
parseFloat(s) ==
    LET n == DigitPrefix(s)
        rest == SubSeq(s, n + 1, Len(s))
        f == IF rest # <<>> /\ Head(rest) = "." THEN DigitPrefix(Tail(rest)) ELSE 0
        tenth == IF f > 0 THEN DigitVal(rest[2]) ELSE 0
    IN  IF n = 0 /\ f = 0 THEN NaN
        ELSE Num(10 * DigitsValue(SubSeq(s, 1, n)) + tenth)

----------------------------------------------------------------------------
(* The collection.  A document carries the three fields the queries read.  *)

USA == <<"U", "S", "A">>
Norway == <<"N", "o", "r", "w", "a", "y">>
Sweden == <<"S", "w", "e", "d", "e", "n">>

Date5Jul98 == <<"5", "-", "J", "u", "l", "-", "9", "8">>
Date12Dec05 == <<"1", "2", "-", "D", "e", "c", "-", "0", "5">>
Date1Jan98 == <<"1", "-", "J", "a", "n", "-", "9", "8">>
Date5Jul1998 == <<"5", "-", "J", "u", "l", "-", "1", "9", "9", "8">>
DateX5Jul98 == <<"x", "5", "-", "J", "u", "l", "-", "9", "8">>

Doc(rating, country, date) ==
    [id |-> 0, ReviewRating |-> rating, ReleaseCountry |-> country, ReleaseDate |-> date]

\* The documents the small stores are made of.
SmallDocs ==
    { Doc(Num(50), Str(USA), Str(Date5Jul98)),
      Doc(Num(70), Str(USA), Str(Date12Dec05)),
      Doc(Num(70), Str(Norway), Str(Date1Jan98)),
      Doc(Null, Null, Str(Date5Jul1998)),
      Doc(Absent, Absent, Absent),
      Doc(Num(90), Str(Norway), Str(DateX5Jul98)) }

\* Documents numbered by their place of insertion (the _id).
WithIds(docs) == [i \in 1..Len(docs) |-> [docs[i] EXCEPT !.id = i]]

\* Every store of at most MaxRecords documents.
SmallStores ==
    UNION { { WithIds(s) : s \in [1..n -> SmallDocs] } : n \in 0..MaxRecords }

\* n documents of one country, ratings lo, hi, lo, hi, ...
Block(n, country, lo, hi, date) ==
    [i \in 1..n |-> Doc(Num(IF i % 2 = 1 THEN lo ELSE hi), Str(country), Str(date))]

\* Stores large enough for the 10-movie minimum and the limit of 10: nN
\* Norway documents averaging 7.5, nS Sweden documents rated 9.0, nU USA
\* documents rated 9.0, and k times a Sweden document without rating plus a
\* rated document without country.
Bulk(nN, nS, nU, k) ==
    WithIds(Block(nN, Norway, 70, 80, Date5Jul98)
            \o Block(nS, Sweden, 90, 90, Date12Dec05)
            \o Block(nU, USA, 90, 90, Date1Jan98)
            \o [i \in 1..k |-> Doc(Null, Str(Sweden), Str(Date5Jul1998))]
            \o [i \in 1..k |-> Doc(Num(95), Null, Absent)])

BulkStores ==
    { Bulk(nN, nS, nU, k) : nN \in {0, 12}, nS \in {9, 10}, nU \in {0, 10}, k \in {0, 1} }

Stores == SmallStores \cup BulkStores

Reverse(s) == [i \in 1..Len(s) |-> s[Len(s) + 1 - i]]

\* The order in which the store hands out the documents of a collection when
\* the query gives no sort: not fixed by the store.  Every order for a small
\* collection, the insertion order or its reverse for a large one.
NaturalOrders(coll) ==
    IF Len(coll) <= MaxRecords
    THEN { [i \in 1..Len(coll) |-> coll[p[i]]] :
             p \in { q \in [1..Len(coll) -> 1..Len(coll)] :
                       \A i, j \in 1..Len(coll) : q[i] = q[j] => i = j } }
    ELSE { coll, Reverse(coll) }

Ids(docs) == [i \in 1..Len(docs) |-> docs[i].id]

----------------------------------------------------------------------------
(* Sorting, as a $sort stage or .sort() does it: by a key, ascending       *)
(* (dir = 1) or descending (dir = -1); documents with equal keys keep the  *)
(* order in which the stage received them.  A key is a type rank (null and *)
(* missing sort below every number) and a fraction num/den, den > 0.       *)

Key(rank, num, den) == [rank |-> rank, num |-> num, den |-> den]

Cmp(a, b) ==
    IF a.rank # b.rank THEN a.rank - b.rank ELSE a.num * b.den - b.num * a.den

RECURSIVE Insert(_, _, _)
Insert(x, sorted, dir) ==
    IF sorted = <<>> THEN <<x>>
    ELSE IF dir * Cmp(x.key, Head(sorted).key) < 0 THEN <<x>> \o sorted
    ELSE <<Head(sorted)>> \o Insert(x, Tail(sorted), dir)

\* items: a sequence of [key, val]; the result is the sequence of the vals.
RECURSIVE SortItems(_, _)
SortItems(items, dir) ==
    IF items = <<>> THEN <<>>
    ELSE Insert(items[Len(items)], SortItems(SubSeq(items, 1, Len(items) - 1), dir), dir)

Sort(items, dir) == LET s == SortItems(items, dir) IN [i \in 1..Len(s) |-> s[i].val]

\* The key of .sort({ 'Review Rating': -1 }).
RatingKey(doc) ==
    IF doc.ReviewRating.t = "num" THEN Key(1, doc.ReviewRating.v, 1) ELSE Key(0, 0, 1)

\* .limit(n)
Limit(docs, n) == SubSeq(docs, 1, IF Len(docs) < n THEN Len(docs) ELSE n)

\* The positions of s whose value under the same position of keys occurs
\* there for the first time: the order in which $group meets its groups.
FirstPositions(keys) ==
    SelectSeq([i \in 1..Len(keys) |-> i],
              LAMBDA i : \A j \in 1..(i - 1) : keys[j] # keys[i])

----------------------------------------------------------------------------
(* The queries of the controller, each applied to the documents in the     *)
(* order the store scans them.                                             *)

\* Slip: a path without a type, whose conditions are sent to the store as they are.
CastsAnything(rating) == TRUE

\* Mongoose casts a condition on 'Review Rating' to the path's type, Number:
\* NaN is not castable and the query is rejected before it is sent.
CastsToNumber(rating) == rating.t = "num"

\* Slip: $gt for $gte.
GtRating(doc, rating) ==
    doc.ReviewRating.t = "num" /\ rating.t = "num" /\ doc.ReviewRating.v > rating.v

\* { 'Review Rating': { $gte: rating } }: only a number compares to a number.
GteRating(doc, rating) ==
    doc.ReviewRating.t = "num" /\ rating.t = "num" /\ doc.ReviewRating.v >= rating.v

\* Movie.find({})
FindAll(scan) == scan

\* Movie.find({ 'Review Rating': { $gte: rating } })
FindRatingGte(scan, rating) == SelectSeq(scan, LAMBDA d : GteRating(d, rating))

\* The limit of getMoviesWithBestRating.
TopLimit == 10

\* Slip: .limit(10) applied before .sort().
FindLimitThenSort(scan) ==
    LET first == Limit(scan, TopLimit)
    IN  Sort([i \in 1..Len(first) |-> [key |-> RatingKey(first[i]), val |-> first[i]]], -1)

\* Movie.find({}).sort({ 'Review Rating': -1 }).limit(10)
FindBestRating(scan) ==
    Limit(Sort([i \in 1..Len(scan) |-> [key |-> RatingKey(scan[i]), val |-> scan[i]]], -1),
          TopLimit)

\* $regex: /^\d{1,2}-[A-Za-z]{3}-\d{2}$/ on a string.
MatchesDatePattern(s) ==
    \E d \in {1, 2} :
        /\ Len(s) = d + 7
        /\ \A i \in 1..d : IsDigit(s[i])
        /\ s[d + 1] = "-"
        /\ \A i \in (d + 2)..(d + 4) : IsAlpha(s[i])
        /\ s[d + 5] = "-"
        /\ \A i \in (d + 6)..(d + 7) : IsDigit(s[i])

\* Stage 1 of the per-year pipeline: only a string can match a $regex.
MatchReleaseDate(docs) ==
    SelectSeq(docs, LAMBDA d : d.ReleaseDate.t = "str" /\ MatchesDatePattern(d.ReleaseDate.v))

\* { $split: [s, sep] }
RECURSIVE Split(_, _)
Split(s, sep) ==
    IF \A i \in 1..Len(s) : s[i] # sep THEN <<s>>
    ELSE LET k == CHOOSE i \in 1..Len(s) : s[i] = sep /\ \A j \in 1..(i - 1) : s[j] # sep
         IN  <<SubSeq(s, 1, k - 1)>> \o Split(SubSeq(s, k + 1, Len(s)), sep)

\* Stage 2: yearNum = $toInt of element 2 (counted from 0) of the split date.
yearNum(doc) == DigitsValue(Split(doc.ReleaseDate.v, "-")[3])

\* The century added to the two-digit year.
Century == 2000

\* Slip: the twentieth century.
ReleaseYear1900(doc) == yearNum(doc) + 1900

\* Stage 3: ReleaseYear = yearNum + 2000.
ReleaseYear(doc) == yearNum(doc) + Century

\* Stage 4: one group per ReleaseYear, counting its documents.
GroupByYear(docs) ==
    LET years == [i \in 1..Len(docs) |-> ReleaseYear(docs[i])]
        firsts == FirstPositions(years)
    IN  [g \in 1..Len(firsts) |->
            [id |-> years[firsts[g]],
             count |-> Cardinality({i \in 1..Len(years) : years[i] = years[firsts[g]]})]]

\* Slip: the $sort stage left out.
SortByIdLeftOut(groups) == groups

\* Stage 5: $sort: { _id: 1 }.
SortById(groups) ==
    Sort([g \in 1..Len(groups) |-> [key |-> Key(1, groups[g].id, 1), val |-> groups[g]]], 1)

\* The pipeline of getMoviesPerYear.
MoviesPerYear(scan) == SortById(GroupByYear(MatchReleaseDate(scan)))

\* Stage 1 of the top-countries pipeline: { $exists: true, $ne: null } on both fields.
Present(field) == field.t # "absent" /\ field.t # "null"
MatchRatingAndCountry(docs) ==
    SelectSeq(docs, LAMBDA d : Present(d.ReviewRating) /\ Present(d.ReleaseCountry))

RECURSIVE SumRating(_)
SumRating(docs) ==
    IF docs = <<>> THEN 0 ELSE Head(docs).ReviewRating.v + SumRating(Tail(docs))

\* Stage 2: one group per country with $avg of the rating (kept as the
\* fraction sum/count) and the number of documents.
GroupByCountry(docs) ==
    LET countries == [i \in 1..Len(docs) |-> docs[i].ReleaseCountry.v]
        firsts == FirstPositions(countries)
        members(g) == SelectSeq(docs, LAMBDA d : d.ReleaseCountry.v = countries[firsts[g]])
    IN  [g \in 1..Len(firsts) |->
            [id |-> countries[firsts[g]],
             avgRating |-> [num |-> SumRating(members(g)), den |-> Len(members(g))],
             movieCount |-> Len(members(g))]]

\* The minimum number of movies of a country.
MinMovies == 10

\* Slip: $gt for $gte.
MatchMovieCountAbove(groups) == SelectSeq(groups, LAMBDA g : g.movieCount > MinMovies)

\* Stage 3: movieCount: { $gte: 10 }.
MatchMovieCount(groups) == SelectSeq(groups, LAMBDA g : g.movieCount >= MinMovies)

\* Slip: tests countryQuery !== undefined, so the empty string counts as a filter.
TruthyWhenDefined(q) == q.t = "str"

\* countryQuery ? ... : ...   (undefined and the empty string are falsy)
Truthy(q) == q.t = "str" /\ q.v # <<>>

\* Whether the store accepts the text as a regular expression: of the
\* characters used here, only a group that is opened and never closed is refused.
RegexCompiles(pattern) == \A i \in 1..Len(pattern) : pattern[i] # "("

\* { $regex: pattern, $options: 'i' }: an unanchored match, a point standing
\* for any character, letters matching in either case.
RegexMatches(pattern, text) ==
    \E off \in 0..(Len(text) - Len(pattern)) :
        \A j \in 1..Len(pattern) :
            pattern[j] = "." \/ ToLower(pattern[j]) = ToLower(text[off + j])

\* Stage 4, only when countryQuery is truthy: _id: { $regex: countryQuery, $options: 'i' }.
MatchCountry(groups, countryQuery) ==
    IF Truthy(countryQuery)
    THEN SelectSeq(groups, LAMBDA g : RegexMatches(countryQuery.v, g.id))
    ELSE groups

\* Stage 5: $sort: { avgRating: -1 }.
SortByAvgRating(groups) ==
    Sort([g \in 1..Len(groups) |->
            [key |-> Key(1, groups[g].avgRating.num, groups[g].avgRating.den),
             val |-> groups[g]]], -1)

\* The pipeline of getTopCountriesByRating.
TopCountries(scan, countryQuery) ==
    SortByAvgRating(MatchCountry(MatchMovieCount(GroupByCountry(MatchRatingAndCountry(scan))),
                                 countryQuery))

----------------------------------------------------------------------------
(* What an awaited store call settles to: a value, or an error.            *)

Resolved(value) == [ok |-> TRUE, value |-> value, error |-> ""]
Rejected(message) == [ok |-> FALSE, value |-> <<>>, error |-> message]

\* A read can fail whatever the query (the store cannot be reached).
Unreachable == { Rejected("connect ECONNREFUSED") }

\* await Movie.find({})
AwaitFindAll(coll) ==
    { Resolved(Ids(FindAll(scan))) : scan \in NaturalOrders(coll) } \cup Unreachable

\* await Movie.find({ 'Review Rating': { $gte: rating } })
AwaitFindRatingGte(coll, rating) ==
    IF CastsToNumber(rating)
    THEN { Resolved(Ids(FindRatingGte(scan, rating))) : scan \in NaturalOrders(coll) }
         \cup Unreachable
    ELSE { Rejected("Cast to Number failed for value \"NaN\"") }

\* await Movie.find({}).sort({ 'Review Rating': -1 }).limit(10)
AwaitFindBestRating(coll) ==
    { Resolved(Ids(FindBestRating(scan))) : scan \in NaturalOrders(coll) } \cup Unreachable

\* await Movie.aggregate([...]) of getMoviesPerYear
AwaitMoviesPerYear(coll) ==
    { Resolved(MoviesPerYear(scan)) : scan \in NaturalOrders(coll) } \cup Unreachable

\* await Movie.aggregate(pipeline) of getTopCountriesByRating
AwaitTopCountries(coll, countryQuery) ==
    IF Truthy(countryQuery) /\ ~RegexCompiles(countryQuery.v)
    THEN { Rejected("Regular expression is invalid") }
    ELSE { Resolved(TopCountries(scan, countryQuery)) : scan \in NaturalOrders(coll) }
         \cup Unreachable

----------------------------------------------------------------------------
(* Responses.                                                              *)

\* res.json(value)
Json(value) == [status |-> 200, kind |-> "array", items |-> value, message |-> <<>>]

\* Slip: res.json({ message: error.message }) without the status.
ServerErrorWithoutStatus(error) ==
    [status |-> 200, kind |-> "object", items |-> <<>>, message |-> <<error>>]

\* res.status(500).json({ message: error.message })
ServerError(error) ==
    [status |-> 500, kind |-> "object", items |-> <<>>, message |-> <<error>>]

\* res.status(404).json({ message: `Country "${countryQuery}" not found ...` })
NotFound(countryQuery) ==
    [status |-> 404, kind |-> "object", items |-> <<>>,
     message |-> <<"Country \"">> \o countryQuery.v
                 \o <<"\" not found or has fewer than 10 movies.">>]

\* Slip: the 404 branch does not return, and res.json(topCountries) follows it.
SendTopCountriesWithoutReturn(countryQuery, topCountries) ==
    IF Truthy(countryQuery) /\ Len(topCountries) = 0
    THEN <<NotFound(countryQuery), Json(topCountries)>>
    ELSE <<Json(topCountries)>>

\* What getTopCountriesByRating sends once the aggregation has resolved: the
\* 404 branch returns, so nothing follows it.
SendTopCountries(countryQuery, topCountries) ==
    IF Truthy(countryQuery) /\ Len(topCountries) = 0
    THEN <<NotFound(countryQuery)>>
    ELSE <<Json(topCountries)>>

----------------------------------------------------------------------------
(* Requests and the router.                                                *)

RatingParams == { <<"7">>, <<"7", ".", "5">>, <<"a", "b", "c">> }

CountryParams ==
    { Absent, Str(<<>>), Str(<<"u", "s">>), Str(<<"u", ".", "a">>), Str(<<"n">>),
      Str(<<"A", "t", "l", "a", "n", "t", "i", "s">>), Str(<<"(">>) }

Get(path, rating, country) == [path |-> path, rating |-> rating, country |-> country]

HttpRequests ==
    { Get("/", Absent, Absent), Get("/top-rated", Absent, Absent),
      Get("/movies-per-year", Absent, Absent) }
    \cup { Get("/rating/:rating", Str(p), Absent) : p \in RatingParams }
    \cup { Get("/top-countries", Absent, c) : c \in CountryParams }

\* router.get(path, handler)
router(path) ==
    CASE path = "/" -> "getAllMovies"
      [] path = "/rating/:rating" -> "getMoviesWithRatingAboveSpecified"
      [] path = "/top-rated" -> "getMoviesWithBestRating"
      [] path = "/movies-per-year" -> "getMoviesPerYear"
      [] path = "/top-countries" -> "getTopCountriesByRating"

NoRequest == Get("", Absent, Absent)
Pending == [state |-> "pending", error |-> ""]
NoLocals == [rating |-> Absent, countryQuery |-> Absent]

Init ==
    /\ Movie \in Stores
    /\ pc = [r \in Requests |-> "idle"]
    /\ req = [r \in Requests |-> NoRequest]
    /\ local = [r \in Requests |-> NoLocals]
    /\ reads = [r \in Requests |-> 0]
    /\ settled = [r \in Requests |-> Pending]
    /\ res = [r \in Requests |-> <<>>]

\* The requests the router hands to a handler.
Routed(handler) == { rq \in HttpRequests : router(rq.path) = handler }

\* The handler of request r is suspended on its store call.
Suspended(r, handler) == pc[r] = "awaiting" /\ router(req[r].path) = handler

----------------------------------------------------------------------------
(* The handlers.  Each is entered with its request, sets its locals,       *)
(* issues its one store call and is suspended on it; it goes on in the try *)
(* branch when the call resolved, or in the catch branch when it was       *)
(* rejected, sends its response and ends.                                  *)

getAllMovies(r) ==
    /\ pc[r] = "idle"
    /\ \E rq \in Routed("getAllMovies") :
           /\ req' = [req EXCEPT ![r] = rq]
           /\ local' = [local EXCEPT ![r] = NoLocals]
    /\ reads' = [reads EXCEPT ![r] = @ + 1]
    /\ pc' = [pc EXCEPT ![r] = "awaiting"]
    /\ UNCHANGED <<Movie, settled, res>>

getAllMoviesResolved(r) ==
    /\ Suspended(r, "getAllMovies")
    /\ \E movies \in { o \in AwaitFindAll(Movie) : o.ok } :
           /\ settled' = [settled EXCEPT ![r] = [state |-> "resolved", error |-> ""]]
           /\ res' = [res EXCEPT ![r] = @ \o <<Json(movies.value)>>]
    /\ pc' = [pc EXCEPT ![r] = "done"]
    /\ UNCHANGED <<Movie, req, local, reads>>

getAllMoviesRejected(r) ==
    /\ Suspended(r, "getAllMovies")
    /\ \E error \in { o \in AwaitFindAll(Movie) : ~o.ok } :
           /\ settled' = [settled EXCEPT ![r] = [state |-> "rejected", error |-> error.error]]
           /\ res' = [res EXCEPT ![r] = @ \o <<ServerError(error.error)>>]
    /\ pc' = [pc EXCEPT ![r] = "done"]
    /\ UNCHANGED <<Movie, req, local, reads>>

getMoviesWithRatingAboveSpecified(r) ==
    /\ pc[r] = "idle"
    /\ \E rq \in Routed("getMoviesWithRatingAboveSpecified") :
           /\ req' = [req EXCEPT ![r] = rq]
           /\ local' = [local EXCEPT ![r] = [rating |-> parseFloat(rq.rating.v), countryQuery |-> Absent]]
    /\ reads' = [reads EXCEPT ![r] = @ + 1]
    /\ pc' = [pc EXCEPT ![r] = "awaiting"]
    /\ UNCHANGED <<Movie, settled, res>>

getMoviesWithRatingAboveSpecifiedResolved(r) ==
    /\ Suspended(r, "getMoviesWithRatingAboveSpecified")
    /\ \E movies \in { o \in AwaitFindRatingGte(Movie, local[r].rating) : o.ok } :
           /\ settled' = [settled EXCEPT ![r] = [state |-> "resolved", error |-> ""]]
           /\ res' = [res EXCEPT ![r] = @ \o <<Json(movies.value)>>]
    /\ pc' = [pc EXCEPT ![r] = "done"]
    /\ UNCHANGED <<Movie, req, local, reads>>

getMoviesWithRatingAboveSpecifiedRejected(r) ==
    /\ Suspended(r, "getMoviesWithRatingAboveSpecified")
    /\ \E error \in { o \in AwaitFindRatingGte(Movie, local[r].rating) : ~o.ok } :
           /\ settled' = [settled EXCEPT ![r] = [state |-> "rejected", error |-> error.error]]
           /\ res' = [res EXCEPT ![r] = @ \o <<ServerError(error.error)>>]
    /\ pc' = [pc EXCEPT ![r] = "done"]
    /\ UNCHANGED <<Movie, req, local, reads>>

getMoviesWithBestRating(r) ==
    /\ pc[r] = "idle"
    /\ \E rq \in Routed("getMoviesWithBestRating") :
           /\ req' = [req EXCEPT ![r] = rq]
           /\ local' = [local EXCEPT ![r] = NoLocals]
    /\ reads' = [reads EXCEPT ![r] = @ + 1]
    /\ pc' = [pc EXCEPT ![r] = "awaiting"]
    /\ UNCHANGED <<Movie, settled, res>>

getMoviesWithBestRatingResolved(r) ==
    /\ Suspended(r, "getMoviesWithBestRating")
    /\ \E movies \in { o \in AwaitFindBestRating(Movie) : o.ok } :
           /\ settled' = [settled EXCEPT ![r] = [state |-> "resolved", error |-> ""]]
           /\ res' = [res EXCEPT ![r] = @ \o <<Json(movies.value)>>]
    /\ pc' = [pc EXCEPT ![r] = "done"]
    /\ UNCHANGED <<Movie, req, local, reads>>

getMoviesWithBestRatingRejected(r) ==
    /\ Suspended(r, "getMoviesWithBestRating")
    /\ \E error \in { o \in AwaitFindBestRating(Movie) : ~o.ok } :
           /\ settled' = [settled EXCEPT ![r] = [state |-> "rejected", error |-> error.error]]
           /\ res' = [res EXCEPT ![r] = @ \o <<ServerError(error.error)>>]
    /\ pc' = [pc EXCEPT ![r] = "done"]
    /\ UNCHANGED <<Movie, req, local, reads>>

getMoviesPerYear(r) ==
    /\ pc[r] = "idle"
    /\ \E rq \in Routed("getMoviesPerYear") :
           /\ req' = [req EXCEPT ![r] = rq]
           /\ local' = [local EXCEPT ![r] = NoLocals]
    /\ reads' = [reads EXCEPT ![r] = @ + 1]
    /\ pc' = [pc EXCEPT ![r] = "awaiting"]
    /\ UNCHANGED <<Movie, settled, res>>

getMoviesPerYearResolved(r) ==
    /\ Suspended(r, "getMoviesPerYear")
    /\ \E moviesPerYear \in { o \in AwaitMoviesPerYear(Movie) : o.ok } :
           /\ settled' = [settled EXCEPT ![r] = [state |-> "resolved", error |-> ""]]
           /\ res' = [res EXCEPT ![r] = @ \o <<Json(moviesPerYear.value)>>]
    /\ pc' = [pc EXCEPT ![r] = "done"]
    /\ UNCHANGED <<Movie, req, local, reads>>

getMoviesPerYearRejected(r) ==
    /\ Suspended(r, "getMoviesPerYear")
    /\ \E error \in { o \in AwaitMoviesPerYear(Movie) : ~o.ok } :
           /\ settled' = [settled EXCEPT ![r] = [state |-> "rejected", error |-> error.error]]
           /\ res' = [res EXCEPT ![r] = @ \o <<ServerError(error.error)>>]
    /\ pc' = [pc EXCEPT ![r] = "done"]
    /\ UNCHANGED <<Movie, req, local, reads>>

getTopCountriesByRating(r) ==
    /\ pc[r] = "idle"
    /\ \E rq \in Routed("getTopCountriesByRating") :
           /\ req' = [req EXCEPT ![r] = rq]
           /\ local' = [local EXCEPT ![r] = [rating |-> Absent, countryQuery |-> rq.country]]
    /\ reads' = [reads EXCEPT ![r] = @ + 1]
    /\ pc' = [pc EXCEPT ![r] = "awaiting"]
    /\ UNCHANGED <<Movie, settled, res>>

getTopCountriesByRatingResolved(r) ==
    /\ Suspended(r, "getTopCountriesByRating")
    /\ \E topCountries \in { o \in AwaitTopCountries(Movie, local[r].countryQuery) : o.ok } :
           /\ settled' = [settled EXCEPT ![r] = [state |-> "resolved", error |-> ""]]
           /\ res' = [res EXCEPT ![r] = @ \o SendTopCountries(local[r].countryQuery, topCountries.value)]
    /\ pc' = [pc EXCEPT ![r] = "done"]
    /\ UNCHANGED <<Movie, req, local, reads>>

getTopCountriesByRatingRejected(r) ==
    /\ Suspended(r, "getTopCountriesByRating")
    /\ \E error \in { o \in AwaitTopCountries(Movie, local[r].countryQuery) : ~o.ok } :
           /\ settled' = [settled EXCEPT ![r] = [state |-> "rejected", error |-> error.error]]
           /\ res' = [res EXCEPT ![r] = @ \o <<ServerError(error.error)>>]
    /\ pc' = [pc EXCEPT ![r] = "done"]
    /\ UNCHANGED <<Movie, req, local, reads>>

Next ==
    \E r \in Requests :
        \/ getAllMovies(r)
        \/ getAllMoviesResolved(r)
        \/ getAllMoviesRejected(r)
        \/ getMoviesWithRatingAboveSpecified(r)
        \/ getMoviesWithRatingAboveSpecifiedResolved(r)
        \/ getMoviesWithRatingAboveSpecifiedRejected(r)
        \/ getMoviesWithBestRating(r)
        \/ getMoviesWithBestRatingResolved(r)
        \/ getMoviesWithBestRatingRejected(r)
        \/ getMoviesPerYear(r)
        \/ getMoviesPerYearResolved(r)
        \/ getMoviesPerYearRejected(r)
        \/ getTopCountriesByRating(r)
        \/ getTopCountriesByRatingResolved(r)
        \/ getTopCountriesByRatingRejected(r)

Spec == Init /\ [][Next]_vars

----------------------------------------------------------------------------
(* What the properties speak of, computed from the collection itself and   *)
(* not by the pipelines.                                                   *)

Served(r, handler) == pc[r] = "done" /\ router(req[r].path) = handler
Answered(r, handler) == Served(r, handler) /\ settled[r].state = "resolved"
Failed(r, handler) == Served(r, handler) /\ settled[r].state = "rejected"
Response(r) == res[r][1]

DocIds == 1..Len(Movie)
HasRating(i) == Movie[i].ReviewRating.t = "num"
Qualifying(i) == HasRating(i) /\ Movie[i].ReleaseCountry.t = "str"
QualifyingOf(c) == { i \in DocIds : Qualifying(i) /\ Movie[i].ReleaseCountry.v = c }
CountryNames == { Movie[i].ReleaseCountry.v : i \in { j \in DocIds : Qualifying(j) } }
BigCountries == { c \in CountryNames : Cardinality(QualifyingOf(c)) >= 10 }

RECURSIVE RatingSum(_)
RatingSum(S) ==
    IF S = {} THEN 0
    ELSE LET i == CHOOSE j \in S : TRUE IN Movie[i].ReviewRating.v + RatingSum(S \ {i})

Supplied(q) == q.t = "str" /\ Len(q.v) > 0
ItemIds(items) == { items[i].id : i \in 1..Len(items) }
NoRepeat(items) == \A i, j \in 1..Len(items) : items[i].id = items[j].id => i = j

\* text contains filter as a literal substring, letter case ignored
ContainsIgnoreCase(text, filter) ==
    \E off \in 0..(Len(text) - Len(filter)) :
        \A j \in 1..Len(filter) : ToLower(filter[j]) = ToLower(text[off + j])

NotFoundMessage(filter) ==
    <<"Country \"">> \o filter \o <<"\" not found or has fewer than 10 movies.">>

----------------------------------------------------------------------------
\* C1: getTopCountriesByRating answers 404, with the message naming the
\* filter, exactly when the store read succeeded, a countryFilter was
\* supplied and the filtered aggregation has no group; without a filter and
\* with no country of 10 records it answers 200 with an empty list.
C1_NotFoundExactly ==
    \A r \in Requests :
        Served(r, "getTopCountriesByRating") =>
            LET q == req[r].country
                none == { c \in BigCountries : RegexMatches(q.v, c) } = {}
            IN  /\ Len(res[r]) = 1
                /\ Response(r).status = 404
                     <=> (settled[r].state = "resolved" /\ Supplied(q) /\ none)
                /\ Response(r).status = 404 => Response(r).message = NotFoundMessage(q.v)
                /\ (settled[r].state = "resolved" /\ ~Supplied(q) /\ BigCountries = {})
                     => Response(r) = [status |-> 200, kind |-> "array",
                                       items |-> <<>>, message |-> <<>>]

C1_Witness ==
    \E r1, r2 \in Requests :
        /\ Answered(r1, "getTopCountriesByRating") /\ Answered(r2, "getTopCountriesByRating")
        /\ req[r1].country = Str(<<"A", "t", "l", "a", "n", "t", "i", "s">>)
        /\ BigCountries # {}
        /\ Response(r1).status = 404
        /\ req[r2].country = Absent
        /\ Response(r2).status = 200

\* C2: without a countryFilter the answer holds one group per country with
\* at least 10 qualifying records and no other group, each with the number
\* of the country's qualifying records and the mean of their ratings, by
\* mean rating descending.
C2_GroupsOfTenOrMore ==
    \A r \in Requests :
        (Answered(r, "getTopCountriesByRating") /\ ~Supplied(req[r].country)) =>
            LET groups == Response(r).items
            IN  /\ Response(r).status = 200
                /\ ItemIds(groups) = BigCountries
                /\ NoRepeat(groups)
                /\ \A i \in 1..Len(groups) :
                       /\ groups[i].movieCount = Cardinality(QualifyingOf(groups[i].id))
                       /\ groups[i].movieCount >= 10
                       /\ groups[i].avgRating.num * groups[i].movieCount
                            = RatingSum(QualifyingOf(groups[i].id)) * groups[i].avgRating.den
                /\ \A i, j \in 1..Len(groups) :
                       i < j => groups[i].avgRating.num * groups[j].avgRating.den
                                  >= groups[j].avgRating.num * groups[i].avgRating.den

\* 12 Norway records and 9 qualifying Sweden records (a tenth without rating).
C2_Witness ==
    \E r \in Requests :
        /\ Answered(r, "getTopCountriesByRating") /\ req[r].country = Absent
        /\ Cardinality(QualifyingOf(Norway)) = 12
        /\ Cardinality(QualifyingOf(Sweden)) = 9
        /\ Cardinality({ i \in DocIds : Movie[i].ReleaseCountry = Str(Sweden) }) = 10
        /\ Cardinality(QualifyingOf(USA)) = 10
        /\ ItemIds(Response(r).items) = {Norway, USA}

\* C3: with a countryFilter the answer keeps exactly the groups of at least
\* 10 qualifying records whose country name contains the filter as a literal
\* substring, letter case ignored, whatever characters the filter is made of.
C3_LiteralSubstring ==
    \A r \in Requests :
        (Answered(r, "getTopCountriesByRating") /\ Supplied(req[r].country)) =>
            ItemIds(Response(r).items)
              = { c \in BigCountries : ContainsIgnoreCase(c, req[r].country.v) }

\* C4: getMoviesWithRatingAboveSpecified with a numeric threshold returns
\* exactly the stored records whose ReviewRating is present and >= it.
C4_ExactlyAtLeastRating ==
    \A r \in Requests :
        (Answered(r, "getMoviesWithRatingAboveSpecified") /\ local[r].rating.t = "num") =>
            /\ Response(r).status = 200
            /\ \A k \in 1..Len(Response(r).items) : Response(r).items[k] \in DocIds
            /\ { Response(r).items[k] : k \in 1..Len(Response(r).items) }
                 = { i \in DocIds : HasRating(i) /\ Movie[i].ReviewRating.v >= local[r].rating.v }
            /\ \A k, l \in 1..Len(Response(r).items) :
                   Response(r).items[k] = Response(r).items[l] => k = l

C4_Witness ==
    \E r \in Requests :
        /\ Answered(r, "getMoviesWithRatingAboveSpecified")
        /\ local[r].rating = Num(70)
        /\ Len(Response(r).items) = 1
        /\ Movie[Response(r).items[1]].ReviewRating = Num(70)
        /\ Len(Movie) = 2
        /\ \E i \in DocIds : ~HasRating(i)

\* C5 as stated: a rating parameter that does not parse to a number is
\* answered with 200 and an empty list.
C5_NaNMatchesNothing ==
    \A r \in Requests :
        (Served(r, "getMoviesWithRatingAboveSpecified") /\ local[r].rating = NaN) =>
            Response(r) = [status |-> 200, kind |-> "array", items |-> <<>>, message |-> <<>>]

\* C5 amended: a rating parameter that does not parse to a number is not
\* refused by the handler, which issues its one store call with NaN; the
\* call is rejected and the answer is 500 with the error's message and no
\* record.
C5_NaNIsRejectedByTheCast ==
    \A r \in Requests :
        (Served(r, "getMoviesWithRatingAboveSpecified") /\ local[r].rating = NaN) =>
            /\ reads[r] = 1
            /\ settled[r].state = "rejected"
            /\ res[r] = << [status |-> 500, kind |-> "object", items |-> <<>>,
                           message |-> <<settled[r].error>>] >>

C5_Witness ==
    \E r \in Requests :
        /\ Served(r, "getMoviesWithRatingAboveSpecified")
        /\ req[r].rating = Str(<<"a", "b", "c">>)
        /\ local[r].rating = NaN
        /\ Len(Movie) > 0
        /\ Response(r).status = 500

\* The year a release date is to be counted under (0: under none).
ExpectedYear(date) ==
    CASE date = Str(Date5Jul98) -> 2098
      [] date = Str(Date12Dec05) -> 2005
      [] date = Str(Date1Jan98) -> 2098
      [] OTHER -> 0
CountedUnder(y) == { i \in DocIds : ExpectedYear(Movie[i].ReleaseDate) = y }

RECURSIVE CountSum(_)
CountSum(items) == IF items = <<>> THEN 0 ELSE Head(items).count + CountSum(Tail(items))

\* C6: getMoviesPerYear returns one entry per year 2000+YY of a conforming
\* release date, counting the records of that year; the counts add up to
\* the number of conforming records; the years are strictly increasing;
\* "5-Jul-98" is counted under 2098.
C6_CountsPerYear ==
    \A r \in Requests :
        Answered(r, "getMoviesPerYear") =>
            LET items == Response(r).items
            IN  /\ Response(r).status = 200
                /\ ItemIds(items) = { ExpectedYear(Movie[i].ReleaseDate) : i \in DocIds } \ {0}
                /\ \A k \in 1..Len(items) :
                       items[k].count = Cardinality(CountedUnder(items[k].id))
                /\ CountSum(items) = Cardinality(DocIds \ CountedUnder(0))
                /\ \A k, l \in 1..Len(items) : k < l => items[k].id < items[l].id
                /\ (\E i \in DocIds : Movie[i].ReleaseDate = Str(Date5Jul98))
                     => /\ 2098 \in ItemIds(items)
                        /\ 1998 \notin ItemIds(items)

C6_Witness ==
    \E r \in Requests :
        /\ Answered(r, "getMoviesPerYear")
        /\ Len(Response(r).items) = 2
        /\ Response(r).items[2] = [id |-> 2098, count |-> 1]
        /\ \E i \in DocIds : Movie[i].ReleaseDate = Str(Date5Jul98)
        /\ Len(Movie) = 2

\* a's rating is at least b's, a missing or null rating being below every number
RatingAtLeast(a, b) ==
    \/ Movie[b].ReviewRating.t # "num"
    \/ Movie[a].ReviewRating.t = "num" /\ Movie[a].ReviewRating.v >= Movie[b].ReviewRating.v

\* C7: getMoviesWithBestRating returns min(10, number of records) records,
\* each rated at least as high as those after it, and leaves out no record
\* rated higher than a returned one, also with missing or null ratings.
C7_TopTen ==
    \A r \in Requests :
        Answered(r, "getMoviesWithBestRating") =>
            LET items == Response(r).items
                returned == { items[k] : k \in 1..Len(items) }
            IN  /\ Len(items) = (IF Len(Movie) < 10 THEN Len(Movie) ELSE 10)
                /\ returned \subseteq DocIds
                /\ Cardinality(returned) = Len(items)
                /\ \A k, l \in 1..Len(items) : k < l => RatingAtLeast(items[k], items[l])
                /\ \A i \in DocIds \ returned : \A a \in returned : RatingAtLeast(a, i)

C7_Witness ==
    \E r \in Requests :
        /\ Answered(r, "getMoviesWithBestRating")
        /\ Len(Movie) > 10
        /\ Len(Response(r).items) = 10
        /\ \E i \in DocIds : Movie[i].ReviewRating = Null
        /\ \E i \in DocIds : Movie[i].ReviewRating = Num(70)

\* C8: when the store read of any handler fails, the answer is the single
\* response 500 carrying the error text and no result, after one store
\* read; for getTopCountriesByRating also when a countryFilter is supplied.
C8_StoreFailureIs500 ==
    \A r \in Requests :
        /\ pc[r] = "done" => reads[r] = 1
        /\ pc[r] = "awaiting" => reads[r] = 1
        /\ (pc[r] = "done" /\ settled[r].state = "rejected") =>
               /\ settled[r].error # ""
               /\ res[r] = << [status |-> 500, kind |-> "object", items |-> <<>>,
                              message |-> <<settled[r].error>>] >>

C8_Witness ==
    \E r1, r2 \in Requests :
        /\ Failed(r1, "getTopCountriesByRating")
        /\ Supplied(req[r1].country)
        /\ settled[r1].error = "connect ECONNREFUSED"
        /\ BigCountries = {}
        /\ Response(r1).status = 500
        /\ Failed(r2, "getMoviesWithBestRating")
        /\ Len(Movie) > 0

\* Two requests with the same parameters, both answered from the store.
SameQuery(r1, r2) ==
    /\ r1 # r2
    /\ pc[r1] = "done" /\ pc[r2] = "done"
    /\ req[r1] = req[r2]
    /\ settled[r1].state = "resolved" /\ settled[r2].state = "resolved"

\* C9 as stated: two executions of the same operation with the same
\* parameters on the same store contents produce the same response, the
\* order of the returned records included.
C9_SameResponse ==
    \A r1, r2 \in Requests : SameQuery(r1, r2) => res[r1] = res[r2]

Rated(i) == IF HasRating(i) THEN Movie[i].ReviewRating.v ELSE -1

\* C9 amended: two such executions, when both store reads succeed, produce
\* the same status and the same records or groups; the bodies agree in
\* order as far as the query's sort fixes it: identical for
\* getMoviesPerYear, the same sequence of ratings for
\* getMoviesWithBestRating, the same groups and sequence of averages for
\* getTopCountriesByRating, the same records in some order for getAllMovies
\* and getMoviesWithRatingAboveSpecified.
C9_SameUpToStoreOrder ==
    \A r1, r2 \in Requests :
        SameQuery(r1, r2) =>
            LET a == Response(r1)
                b == Response(r2)
                handler == router(req[r1].path)
                n == Len(a.items)
            IN  /\ Len(res[r1]) = 1 /\ Len(res[r2]) = 1
                /\ a.status = b.status /\ a.kind = b.kind /\ a.message = b.message
                /\ Len(b.items) = n
                /\ handler \in {"getAllMovies", "getMoviesWithRatingAboveSpecified"}
                     => { a.items[k] : k \in 1..n } = { b.items[k] : k \in 1..n }
                /\ handler = "getMoviesWithBestRating"
                     => \A k \in 1..n : Rated(a.items[k]) = Rated(b.items[k])
                /\ handler = "getMoviesPerYear" => a.items = b.items
                /\ handler = "getTopCountriesByRating"
                     => /\ { a.items[k] : k \in 1..n } = { b.items[k] : k \in 1..n }
                        /\ \A k \in 1..n :
                               a.items[k].avgRating.num * b.items[k].avgRating.den
                                 = b.items[k].avgRating.num * a.items[k].avgRating.den

\* Two executions of getMoviesPerYear that met the records in different
\* orders, and two of getAllMovies that returned them in different orders.
C9_Witness ==
    \E r1, r2 \in Requests :
        /\ SameQuery(r1, r2)
        /\ router(req[r1].path) = "getMoviesPerYear"
        /\ Len(Response(r1).items) = 2
        /\ Len(Movie) = 2

\* The responses request rq gets when it is served alone on collection coll.
ServedAlone(rq, coll) ==
    LET handler == router(rq.path)
        outcomes ==
            CASE handler = "getAllMovies" -> AwaitFindAll(coll)
              [] handler = "getMoviesWithRatingAboveSpecified" ->
                     AwaitFindRatingGte(coll, parseFloat(rq.rating.v))
              [] handler = "getMoviesWithBestRating" -> AwaitFindBestRating(coll)
              [] handler = "getMoviesPerYear" -> AwaitMoviesPerYear(coll)
              [] handler = "getTopCountriesByRating" -> AwaitTopCountries(coll, rq.country)
    IN  { IF ~o.ok THEN ServerError(o.error)
          ELSE IF handler = "getTopCountriesByRating" /\ Supplied(rq.country) /\ o.value = <<>>
          THEN [status |-> 404, kind |-> "object", items |-> <<>>,
                message |-> NotFoundMessage(rq.country.v)]
          ELSE Json(o.value) : o \in outcomes }

\* With program counters p, requests q and responses s on collection coll:
\* a completed request has exactly one response, of status 200, 404 or 500,
\* the one it would get served alone; another request has none.
OneResponseEach(p, q, s, coll) ==
    \A r \in Requests :
        /\ p[r] # "done" => s[r] = <<>>
        /\ p[r] = "done" =>
               /\ Len(s[r]) = 1
               /\ s[r][1].status \in {200, 404, 500}
               /\ s[r][1] \in ServedAlone(q[r], coll)

\* A step leaves the collection, and every request it does not advance, as
\* they were.
NoSharedState ==
    /\ Movie' = Movie
    /\ \A r \in Requests :
           pc'[r] = pc[r] =>
               /\ req'[r] = req[r] /\ local'[r] = local[r] /\ reads'[r] = reads[r]
               /\ settled'[r] = settled[r] /\ res'[r] = res[r]

\* C10: under any interleaving of requests, a request whose store read has
\* completed has exactly one response, of status 200, 404 or 500, the one it
\* would get served alone; a request not yet completed has none; no step
\* changes the collection or the state of another request.
C10_IndependentRequests ==
    /\ OneResponseEach(pc, req, res, Movie)
    /\ [][NoSharedState /\ OneResponseEach(pc', req', res', Movie)]_vars

C10_Witness ==
    \E r1, r2 \in Requests :
        /\ Answered(r1, "getTopCountriesByRating")
        /\ Response(r1).status = 404
        /\ Answered(r2, "getTopCountriesByRating")
        /\ Response(r2).status = 200
        /\ Len(Response(r2).items) = 2
        /\ reads[r1] = 1 /\ reads[r2] = 1

====
